---- MODULE Spec2Model ----
(***************************************************************************)
(* The CAISH service worker (sw.js): cache generations, the install and    *)
(* activate lifecycle, the fetch router and the three caching strategies   *)
(* (cacheFirst, networkFirst, staleWhileRevalidate); the version bump of   *)
(* cache-bust.sh; and the booking function (netlify/functions/book.js).    *)
(*                                                                         *)
(* Every `await` of the source is a suspension point: an action is the     *)
(* resolution of one awaited operation together with the synchronous code  *)
(* that runs after it, up to the next await or the return.  A cache.put    *)
(* that the source does not await completes in a step of its own.          *)
(***************************************************************************)
EXTENDS Naturals, Sequences, FiniteSets

VARIABLES
  lifecycle,      \* position of the worker in its install/activate lifecycle
  caches,         \* CacheStorage: the generations, in creation order
  installPending, \* precache assets whose cache.add has not settled yet
  settled,        \* the settled cache.add calls: TRUE resolved, FALSE rejected
  doomed,         \* generations whose caches.delete has not completed yet
  handlers,       \* one record per fetch event, in arrival order
  swjs,           \* sw.js as cache-bust.sh reads and rewrites it
  released,       \* the generation names sw.js had before each run of the script
  booking         \* the invocation of the booking function (book.js)

vars == <<lifecycle, caches, installPending, settled, doomed, handlers,
          swjs, released, booking>>

(***************************************************************************)
(* Bounds of the model.                                                    *)
(***************************************************************************)
MaxEvents == 3
MaxInFlight == 2
MaxRouted == 2
MaxFirstRun == 2
MaxFaulty == 2
MaxVersion == 19

(***************************************************************************)
(* Names of the cache generations.                                         *)
(***************************************************************************)
CACHE_VERSION == "caish-v16"
RUNTIME_CACHE == "caish-runtime-v16"
OLD_CACHE_VERSION == "caish-v15"
OLD_RUNTIME_CACHE == "caish-runtime-v15"

(***************************************************************************)
(* URLs.  A URL is named by its text; Pathname gives url.pathname (the     *)
(* query string dropped) as a sequence of characters, so that endsWith,    *)
(* includes and startsWith are computed as the source computes them.       *)
(***************************************************************************)
UrlRoot    == "/"
UrlIndex   == "/index.html"
UrlAbout   == "/about"
UrlLogo    == "/images/logo.png"
UrlTeam    == "/images/team"
UrlStyles  == "/styles.css?v=d1e97105"
UrlScript  == "/enhancements.js?v=114f6765"
UrlFont    == "/fonts/inter.woff2"
UrlFontBak == "/fonts/inter.woff.bak"
UrlMap     == "/app.js.map"
UrlData    == "/data.json"
UrlDocs    == "/v1.2/docs"
UrlNested  == "/images/v1.2/team"

\* The URLs the router is examined on, and those whose handling is followed.
AllUrls == {UrlRoot, UrlIndex, UrlAbout, UrlLogo, UrlTeam, UrlStyles,
            UrlScript, UrlFont, UrlFontBak, UrlMap, UrlData, UrlDocs, UrlNested}
Urls == {UrlRoot, UrlLogo, UrlStyles}

Pathname(url) ==
  CASE url = UrlRoot -> <<"/">>
    [] url = UrlIndex -> <<"/","i","n","d","e","x",".","h","t","m","l">>
    [] url = UrlAbout -> <<"/","a","b","o","u","t">>
    [] url = UrlLogo -> <<"/","i","m","a","g","e","s","/","l","o","g","o",".","p","n","g">>
    [] url = UrlTeam -> <<"/","i","m","a","g","e","s","/","t","e","a","m">>
    [] url = UrlStyles -> <<"/","s","t","y","l","e","s",".","c","s","s">>
    [] url = UrlScript -> <<"/","e","n","h","a","n","c","e","m","e","n","t","s",".","j","s">>
    [] url = UrlFont -> <<"/","f","o","n","t","s","/","i","n","t","e","r",".","w","o","f","f","2">>
    [] url = UrlFontBak -> <<"/","f","o","n","t","s","/","i","n","t","e","r",".","w","o","f","f",".","b","a","k">>
    [] url = UrlMap -> <<"/","a","p","p",".","j","s",".","m","a","p">>
    [] url = UrlData -> <<"/","d","a","t","a",".","j","s","o","n">>
    [] url = UrlDocs -> <<"/","v","1",".","2","/","d","o","c","s">>
    [] url = UrlNested -> <<"/","i","m","a","g","e","s","/","v","1",".","2","/","t","e","a","m">>

\* The assets precached on install: one page, one stylesheet, one image.
PRECACHE_ASSETS == {UrlRoot, UrlStyles, UrlLogo}

(***************************************************************************)
(* String operations on sequences of characters.                           *)
(***************************************************************************)
StartsWith(s, p) ==
  /\ Len(p) <= Len(s)
  /\ SubSeq(s, 1, Len(p)) = p

EndsWith(s, p) ==
  /\ Len(p) <= Len(s)
  /\ SubSeq(s, Len(s) - Len(p) + 1, Len(s)) = p

Includes(s, p) ==
  \E i \in 1..(Len(s) + 1) :
    /\ i + Len(p) - 1 <= Len(s)
    /\ SubSeq(s, i, i + Len(p) - 1) = p

(***************************************************************************)
(* Requests.  The Accept header is a sequence of media types; an absent    *)
(* header reads as the empty string.                                       *)
(***************************************************************************)
AcceptHtml == <<"text/html", "application/xhtml+xml">>
AcceptAny  == <<"*/*">>
AcceptNone == <<>>

AcceptIncludesHtml(accept) == \E i \in 1..Len(accept) : accept[i] = "text/html"

Request(origin, method, url, accept) ==
  [origin |-> origin, method |-> method, url |-> url, accept |-> accept]

\* Every request the router is examined on: each URL with each Accept header
\* as a same-origin GET, and each URL as a cross-origin or non-GET request
\* (the listener returns on those before the Accept header is read).
AllRequests ==
  {Request("same", "GET", url, accept) :
     url \in AllUrls, accept \in {AcceptHtml, AcceptAny, AcceptNone}}
    \cup {Request(origin, method, url, AcceptAny) :
            origin \in {"same", "cross"}, method \in {"GET", "POST"},
            url \in AllUrls}

\* The requests whose handling is followed to the end.
Requests ==
  {Request("same", "GET", url, AcceptAny) : url \in Urls}
    \cup {Request("cross", "GET", UrlLogo, AcceptNone),
          Request("same", "POST", UrlData, AcceptAny),
          Request("cross", "POST", UrlRoot, AcceptHtml)}

(***************************************************************************)
(* Classification of a request.                                            *)
(***************************************************************************)
isHTMLRequest(request) ==
  LET pathname == Pathname(request.url)
  IN  \/ AcceptIncludesHtml(request.accept)
      \/ EndsWith(pathname, <<".","h","t","m","l">>)
      \/ pathname = <<"/">>
      \/ (~Includes(pathname, <<".">>) /\ pathname # <<"/">>)

isStaticAsset(pathname) ==
  \/ EndsWith(pathname, <<".","c","s","s">>)
  \/ EndsWith(pathname, <<".","j","s">>)
  \/ Includes(pathname, <<".","w","o","f","f">>)
  \/ Includes(pathname, <<".","w","o","f","f","2">>)

\* Mutant of isImageAsset: another directory prefix is tested.
isImageAssetImgPrefix(pathname) ==
  StartsWith(pathname, <<"/","i","m","g","/">>)

isImageAsset(pathname) == StartsWith(pathname, <<"/","i","m","a","g","e","s","/">>)

(***************************************************************************)
(* Responses.                                                              *)
(***************************************************************************)
Bodies == {"OLD", "NEW"}

NoResponse == [src |-> "none", status |-> 0, body |-> ""]
NetworkOk(b) == [src |-> "network", status |-> 200, body |-> b]
NetworkError == [src |-> "network", status |-> 500, body |-> "Internal Server Error"]
AssetNotAvailable == [src |-> "synthetic", status |-> 404, body |-> "Asset not available"]
ResourceNotAvailable == [src |-> "synthetic", status |-> 503, body |-> "Resource not available"]

\* response.ok
Ok(response) == response.status >= 200 /\ response.status <= 299

\* What a fetch can settle to: a response (2xx or not), or a rejection.
NetworkOutcomes == {NetworkOk(b) : b \in Bodies} \cup {NetworkError, NoResponse}

\* The site as deployed when the worker is installed serves OLD.
InstallOutcomes == {NetworkOk("OLD"), NetworkError, NoResponse}

\* The response a cache lookup yields for a stored entry.
FromCache(entry) == [src |-> "cache", status |-> entry.status, body |-> entry.body]

\* The entry a put stores for a response (a clone of it).
Clone(response) == [status |-> response.status, body |-> response.body]

(***************************************************************************)
(* CacheStorage: a sequence of generations [name, entries] in creation     *)
(* order; entries maps the stored URLs to their captured responses.        *)
(***************************************************************************)
EmptyEntries == [u \in {} |-> Clone(NoResponse)]

GenNames(cs) == {cs[i].name : i \in 1..Len(cs)}

HasGen(cs, name) == name \in GenNames(cs)

GenIndex(cs, name) == CHOOSE i \in 1..Len(cs) : cs[i].name = name

\* caches.open(name): the generation is created when it does not exist.
CachesOpen(cs, name) ==
  IF HasGen(cs, name) THEN cs
  ELSE Append(cs, [name |-> name, entries |-> EmptyEntries])

\* Mutant of CachePut: the generation is left with the new entry alone.
CachePutAlone(cs, name, url, response) ==
  IF ~HasGen(cs, name) THEN cs
  ELSE [cs EXCEPT ![GenIndex(cs, name)].entries = [u \in {url} |-> Clone(response)]]

\* cache.put(request, response) on the generation `name`.
CachePut(cs, name, url, response) ==
  IF ~HasGen(cs, name) THEN cs
  ELSE LET i == GenIndex(cs, name)
           e == cs[i].entries
       IN  [cs EXCEPT ![i].entries =
              [u \in DOMAIN e \cup {url} |-> IF u = url THEN Clone(response) ELSE e[u]]]

\* cache.match(request) on the generation `name`.
CacheMatch(cs, name, url) ==
  IF HasGen(cs, name) /\ url \in DOMAIN cs[GenIndex(cs, name)].entries
  THEN FromCache(cs[GenIndex(cs, name)].entries[url])
  ELSE NoResponse

\* caches.match(request): the first generation, in creation order, holding it.
CachesMatch(cs, url) ==
  LET hits == {i \in 1..Len(cs) : url \in DOMAIN cs[i].entries}
  IN  IF hits = {} THEN NoResponse
      ELSE LET first == CHOOSE i \in hits : \A j \in hits : i <= j
           IN  FromCache(cs[first].entries[url])

\* caches.delete(name)
CachesDelete(cs, name) == SelectSeq(cs, LAMBDA g : g.name # name)

(***************************************************************************)
(* cache-bust.sh: the version bump of sw.js.  The file is a sequence of    *)
(* lines, a line a sequence of characters; of sw.js the two lines with the *)
(* generation names are kept (lines 12 and 13), each from the opening      *)
(* quote of its string literal on.  grep and sed are computed on the       *)
(* characters, as the script computes them.                                *)
(***************************************************************************)
CURRENT_VERSION == 16

PrecachePrefix == <<"c","a","i","s","h","-","v">>
RuntimePrefix == <<"c","a","i","s","h","-","r","u","n","t","i","m","e","-","v">>

Digits == <<"0","1","2","3","4","5","6","7","8","9">>

IsDigit(c) == \E d \in 1..Len(Digits) : Digits[d] = c

DigitValue(c) == (CHOOSE d \in 1..Len(Digits) : Digits[d] = c) - 1

\* The decimal digits a shell expansion of a number gives.
RECURSIVE ToDecimal(_)
ToDecimal(n) ==
  IF n < 10 THEN <<Digits[n + 1]>>
  ELSE ToDecimal(n \div 10) \o <<Digits[(n % 10) + 1]>>

\* The number $(( ... )) reads from decimal digits.
RECURSIVE FromDecimal(_)
FromDecimal(ds) ==
  IF ds = << >> THEN 0
  ELSE 10 * FromDecimal(SubSeq(ds, 1, Len(ds) - 1)) + DigitValue(ds[Len(ds)])

\* Lines 12 and 13 of sw.js with the version integers c and r.
SwJs(c, r) ==
  << <<"'">> \o PrecachePrefix \o ToDecimal(c) \o <<"'", ";">>,
     <<"'">> \o RuntimePrefix \o ToDecimal(r) \o <<"'", ";">> >>

\* The string literal of a line, as the script engine reads it: the
\* characters between the first quote and the next one.
Literal(line) ==
  LET open == CHOOSE i \in 1..Len(line) :
                /\ line[i] = "'"
                /\ \A j \in 1..(i - 1) : line[j] # "'"
      close == CHOOSE i \in (open + 1)..Len(line) :
                 /\ line[i] = "'"
                 /\ \A j \in (open + 1)..(i - 1) : line[j] # "'"
  IN  SubSeq(line, open + 1, close - 1)

\* CACHE_VERSION and RUNTIME_CACHE of the worker that is evaluated from text.
WorkerCacheVersion(text) == Literal(text[1])
WorkerRuntimeCache(text) == Literal(text[2])
WorkerNames(text) == {WorkerCacheVersion(text), WorkerRuntimeCache(text)}

\* The longest run of digits of line that starts at position j.
DigitRun(line, j) ==
  LET last == CHOOSE k \in j..Len(line) :
                /\ \A m \in j..k : IsDigit(line[m])
                /\ k = Len(line) \/ ~IsDigit(line[k + 1])
  IN  SubSeq(line, j, last)

\* grep -oP "<prefix>\K\d+" sw.js | head -1: the digits after the first
\* occurrence of the prefix that digits follow; << >> when there is none.
GrepFirst(text, prefix) ==
  LET positions == UNION {{<<l, i>> : i \in 1..Len(text[l])} : l \in 1..Len(text)}
      hits == {p \in positions :
                 /\ p[2] + Len(prefix) <= Len(text[p[1]])
                 /\ SubSeq(text[p[1]], p[2], p[2] + Len(prefix) - 1) = prefix
                 /\ IsDigit(text[p[1]][p[2] + Len(prefix)])}
  IN  IF hits = {} THEN << >>
      ELSE LET first == CHOOSE p \in hits :
                          \A q \in hits : p[1] < q[1] \/ (p[1] = q[1] /\ p[2] <= q[2])
           IN  DigitRun(text[first[1]], first[2] + Len(prefix))

\* s|pattern|replacement|g on one line: every occurrence, left to right.
RECURSIVE SedLine(_, _, _)
SedLine(line, pattern, replacement) ==
  IF Len(line) < Len(pattern) THEN line
  ELSE IF SubSeq(line, 1, Len(pattern)) = pattern
  THEN replacement \o SedLine(SubSeq(line, Len(pattern) + 1, Len(line)), pattern, replacement)
  ELSE <<line[1]>> \o SedLine(Tail(line), pattern, replacement)

\* sed -i "s|pattern|replacement|g" sw.js
Sed(text, pattern, replacement) ==
  [l \in 1..Len(text) |-> SedLine(text[l], pattern, replacement)]

\* Mutant of CacheBustRun: the sed of the runtime name is missing.
CacheBustRunPrecacheOnly(text) ==
  LET CURRENT_SW_VERSION == GrepFirst(text, PrecachePrefix)
      NEW_SW_VERSION == ToDecimal(FromDecimal(CURRENT_SW_VERSION) + 1)
  IN  Sed(text, PrecachePrefix \o CURRENT_SW_VERSION \o <<"'">>,
                PrecachePrefix \o NEW_SW_VERSION \o <<"'">>)

\* sw.js after the version bump of the script; the pattern of the precache
\* name ends with the closing quote, the pattern of the runtime name does not.
CacheBustRun(text) ==
  LET CURRENT_SW_VERSION == GrepFirst(text, PrecachePrefix)
      CURRENT_RUNTIME_VERSION == GrepFirst(text, RuntimePrefix)
      NEW_SW_VERSION == ToDecimal(FromDecimal(CURRENT_SW_VERSION) + 1)
      NEW_RUNTIME_VERSION == ToDecimal(FromDecimal(CURRENT_RUNTIME_VERSION) + 1)
      bumped == Sed(text, PrecachePrefix \o CURRENT_SW_VERSION \o <<"'">>,
                          PrecachePrefix \o NEW_SW_VERSION \o <<"'">>)
  IN  Sed(bumped, RuntimePrefix \o CURRENT_RUNTIME_VERSION,
                  RuntimePrefix \o NEW_RUNTIME_VERSION)

(***************************************************************************)
(* book.js: the booking function.  One invocation is followed; its awaits  *)
(* are the suspension points.                                              *)
(***************************************************************************)
GAS_URL == "https://script.google.com/macros/s/AKfycbypDh04zDGMw0iwzl0TXlQLgruNCQgkgObo6FCHhh78mK0mkCZFDtbmAYTtWrxEeBFK/exec"
CORS == [AccessControlAllowOrigin |-> "*", ContentType |-> "application/json"]
MaxRedirects == 5

\* Where the backend redirects a POST to; NoLocation: a 3xx response without
\* a location header (headers.get gives null).
EchoUrl == "https://script.googleusercontent.com/macros/echo"
NoLocation == "null"
Locations == {EchoUrl, NoLocation}

\* event.body: a booking, the JSON text null, and a text that is not JSON.
BookingBody == "{\"name\":\"Ada\",\"who\":\"both\"}"
NullBody == "null"
FormBody == "name=Ada&who=both"
EventBodies == {BookingBody, NullBody, FormBody}

\* JSON.parse(event.body)
JsonParse(text) ==
  CASE text = BookingBody -> "object"
    [] text = NullBody -> "null"
    [] OTHER -> "SyntaxError"

\* What the backend answers: a redirect, a body with any other status, or
\* nothing (the fetch rejects).
GasAccepted == "{\"ok\":true}"
GasRefused == "{\"ok\":false,\"e\":\"Slot taken\"}"
GasCrashed == "<html>Error</html>"
GasRejects == [status |-> 0, location |-> NoLocation, text |-> ""]
GasOutcomes ==
  {[status |-> 302, location |-> l, text |-> ""] : l \in Locations}
    \cup {[status |-> 200, location |-> NoLocation, text |-> GasAccepted],
          [status |-> 200, location |-> NoLocation, text |-> GasRefused],
          [status |-> 500, location |-> NoLocation, text |-> GasCrashed],
          GasRejects}

\* String(err) of the errors the handler catches
TooManyRedirects == "Error: Too many redirects"
FetchFailed == "TypeError: fetch failed"
InvalidUrl == "TypeError: Failed to parse URL from null"

\* JSON.stringify({ ok: false, e: String(err) })
ErrorBody(err) ==
  CASE err = TooManyRedirects -> "{\"ok\":false,\"e\":\"Error: Too many redirects\"}"
    [] err = FetchFailed -> "{\"ok\":false,\"e\":\"TypeError: fetch failed\"}"
    [] err = InvalidUrl -> "{\"ok\":false,\"e\":\"TypeError: Failed to parse URL from null\"}"

NoResult == [statusCode |-> 0, headers |-> CORS, body |-> ""]
Result(statusCode, body) == [statusCode |-> statusCode, headers |-> CORS, body |-> body]

\* The function before it is invoked.
BookIdle ==
  [pc |-> "idle", httpMethod |-> "", body |-> "", apiKey |-> FALSE,
   depth |-> 0, posts |-> << >>, returned |-> FALSE, text |-> "",
   err |-> "", mail |-> "none", response |-> NoResult]

\* The state outside the service worker as the repository has it.
AsShipped ==
  /\ swjs = SwJs(CURRENT_VERSION, CURRENT_VERSION)
  /\ released = {}
  /\ booking = BookIdle

(***************************************************************************)
(* The storage the worker can find when it is first started: nothing, or   *)
(* the generations of the previous version.                                *)
(***************************************************************************)
OldGenerations ==
  << [name |-> OLD_CACHE_VERSION,
      entries |-> [u \in {UrlRoot} |-> Clone(NetworkOk("OLD"))]],
     [name |-> OLD_RUNTIME_CACHE,
      entries |-> [u \in {UrlStyles} |-> Clone(NetworkOk("OLD"))]] >>

InitialStorages == {<< >>, OldGenerations}

Init ==
  /\ lifecycle = "parsed"
  /\ caches \in InitialStorages
  /\ installPending = {}
  /\ settled = << >>
  /\ doomed = {}
  /\ handlers = << >>
  /\ AsShipped

(***************************************************************************)
(* Install: open the precache generation, add every asset independently,   *)
(* then skipWaiting.                                                       *)
(***************************************************************************)
InstallEvent ==
  /\ lifecycle = "parsed"
  /\ lifecycle' = "install_open"
  /\ UNCHANGED <<swjs, released, booking, caches, installPending, settled, doomed, handlers>>

InstallOpen ==
  /\ lifecycle = "install_open"
  /\ caches' = CachesOpen(caches, CACHE_VERSION)
  /\ installPending' = PRECACHE_ASSETS
  /\ lifecycle' = "precaching"
  /\ UNCHANGED <<swjs, released, booking, settled, doomed, handlers>>

\* Mutant of PrecacheAdd: whatever response the fetch gives is stored.
PrecacheAddAnyStatus(url, outcome) ==
  /\ lifecycle = "precaching"
  /\ url \in installPending
  /\ caches' = IF outcome # NoResponse
               THEN CachePut(caches, CACHE_VERSION, url, outcome)
               ELSE caches
  /\ installPending' = installPending \ {url}
  /\ settled' = [u \in DOMAIN settled \cup {url} |->
                   IF u = url THEN Ok(outcome) ELSE settled[u]]
  /\ UNCHANGED <<swjs, released, booking, lifecycle, doomed, handlers>>

\* Mutant of PrecacheAdd: the rejection is not caught, and the assets are
\* waited for with Promise.all.
PrecacheAddAborts(url, outcome) ==
  /\ lifecycle = "precaching"
  /\ url \in installPending
  /\ caches' = IF Ok(outcome) THEN CachePut(caches, CACHE_VERSION, url, outcome)
               ELSE caches
  /\ installPending' = installPending \ {url}
  /\ settled' = [u \in DOMAIN settled \cup {url} |->
                   IF u = url THEN Ok(outcome) ELSE settled[u]]
  /\ lifecycle' = IF Ok(outcome) THEN lifecycle ELSE "install_rejected"
  /\ UNCHANGED <<swjs, released, booking, doomed, handlers>>

\* cache.add(url): fetch, and store the response when it is ok; a rejection
\* (failed fetch, or a response that is not ok) is caught and logged.
PrecacheAdd(url, outcome) ==
  /\ lifecycle = "precaching"
  /\ url \in installPending
  /\ caches' = IF Ok(outcome) THEN CachePut(caches, CACHE_VERSION, url, outcome)
               ELSE caches
  /\ installPending' = installPending \ {url}
  /\ settled' = [u \in DOMAIN settled \cup {url} |->
                   IF u = url THEN Ok(outcome) ELSE settled[u]]
  /\ UNCHANGED <<swjs, released, booking, lifecycle, doomed, handlers>>

InstallDone ==
  /\ lifecycle = "precaching"
  /\ installPending = {}
  /\ lifecycle' = "installed"
  /\ UNCHANGED <<swjs, released, booking, caches, installPending, settled, doomed, handlers>>

(***************************************************************************)
(* Activate: list the generations, delete those that are not current,      *)
(* then claim the clients.                                                 *)
(***************************************************************************)
ActivateEvent ==
  /\ lifecycle = "installed"
  /\ lifecycle' = "activate_keys"
  /\ UNCHANGED <<swjs, released, booking, caches, installPending, settled, doomed, handlers>>

\* Mutant of Stale: the runtime generation is not spared.
StaleUnlessPrecache(name) == name # CACHE_VERSION

\* the filter of the sweep
Stale(name) == name # CACHE_VERSION /\ name # RUNTIME_CACHE

\* caches.keys() resolves; caches.delete is called on every stale name
ActivateKeys ==
  /\ lifecycle = "activate_keys"
  /\ doomed' = {name \in GenNames(caches) : Stale(name)}
  /\ lifecycle' = "sweeping"
  /\ UNCHANGED <<swjs, released, booking, caches, installPending, settled, handlers>>

\* One caches.delete resolves.  The deletions are all started together, so
\* one of them completes also after another has rejected.
ActivateDelete(name) ==
  /\ lifecycle \in {"sweeping", "activate_rejected"}
  /\ name \in doomed
  /\ caches' = CachesDelete(caches, name)
  /\ doomed' = doomed \ {name}
  /\ UNCHANGED <<swjs, released, booking, lifecycle, installPending, settled, handlers>>

\* Mutant of ActivateClaim: the deletions are not waited for.
ActivateClaimEarly ==
  /\ lifecycle = "sweeping"
  /\ lifecycle' = "activated"
  /\ UNCHANGED <<swjs, released, booking, caches, installPending, settled, doomed, handlers>>

\* Promise.all resolves; clients.claim() is called
ActivateClaim ==
  /\ lifecycle = "sweeping"
  /\ doomed = {}
  /\ lifecycle' = "activated"
  /\ UNCHANGED <<swjs, released, booking, caches, installPending, settled, doomed, handlers>>

(***************************************************************************)
(* Failing cache operations of the lifecycle.  Neither promise chain has a *)
(* catch: a rejection of caches.open, caches.keys or caches.delete rejects *)
(* the promise given to waitUntil, and the .then(...) that calls           *)
(* skipWaiting or clients.claim does not run.  A worker whose install was  *)
(* rejected is discarded; the events of a worker whose activation was      *)
(* rejected are not followed.                                              *)
(***************************************************************************)
\* caches.open(CACHE_VERSION) rejects
InstallOpenFails ==
  /\ lifecycle = "install_open"
  /\ lifecycle' = "install_rejected"
  /\ UNCHANGED <<swjs, released, booking, caches, installPending, settled, doomed, handlers>>

\* caches.keys() rejects
ActivateKeysFails ==
  /\ lifecycle = "activate_keys"
  /\ lifecycle' = "activate_rejected"
  /\ UNCHANGED <<swjs, released, booking, caches, installPending, settled, doomed, handlers>>

\* one caches.delete rejects: Promise.all rejects, the generation stays
ActivateDeleteFails(name) ==
  /\ lifecycle \in {"sweeping", "activate_rejected"}
  /\ name \in doomed
  /\ doomed' = doomed \ {name}
  /\ lifecycle' = "activate_rejected"
  /\ UNCHANGED <<swjs, released, booking, caches, installPending, settled, handlers>>

(***************************************************************************)
(* The fetch event listener.                                               *)
(***************************************************************************)
\* Mutant of Dispatch: the check of the request method is missing.
DispatchAnyMethod(request) ==
  IF request.origin # "same" THEN "none"
  ELSE IF isHTMLRequest(request) THEN "networkFirst"
  ELSE IF isImageAsset(Pathname(request.url)) THEN "cacheFirst"
  ELSE IF isStaticAsset(Pathname(request.url)) THEN "staleWhileRevalidate"
  ELSE "networkFirst"

\* Mutant of Dispatch: the final else branch is missing.
DispatchNoDefault(request) ==
  IF request.origin # "same" THEN "none"
  ELSE IF request.method # "GET" THEN "none"
  ELSE IF isHTMLRequest(request) THEN "networkFirst"
  ELSE IF isImageAsset(Pathname(request.url)) THEN "cacheFirst"
  ELSE IF isStaticAsset(Pathname(request.url)) THEN "staleWhileRevalidate"
  ELSE "none"

\* The strategy the listener hands the request to ("none": it returns
\* without calling respondWith).
Dispatch(request) ==
  IF request.origin # "same" THEN "none"
  ELSE IF request.method # "GET" THEN "none"
  ELSE IF isHTMLRequest(request) THEN "networkFirst"
  ELSE IF isImageAsset(Pathname(request.url)) THEN "cacheFirst"
  ELSE IF isStaticAsset(Pathname(request.url)) THEN "staleWhileRevalidate"
  ELSE "networkFirst"

\* The number of cache.put calls that have completed so far: the time stamp
\* of the handlers' observations.
Writes(hs) == Cardinality({h \in 1..Len(hs) : hs[h].put = "done"})

\* The handler of a request as the listener leaves it: the strategy has run
\* up to its first await.  cacheOps counts the cache operations (match, open,
\* put) it has started, fetches its network fetches; startAt, lookupAt and
\* putAt record when it started, when its lookup resolved and when its put
\* completed; stored and visible are what cache.match on the runtime
\* generation and caches.match yield for its request right after its put;
\* faults is the set of the cache operations of this handler that rejected.
NewHandler(request, now) ==
  LET strategy == Dispatch(request)
  IN  [req       |-> request,
       strategy  |-> strategy,
       responded |-> IF strategy = "none" THEN 0 ELSE 1,
       pc        |-> CASE strategy = "none" -> "declined"
                       [] strategy = "cacheFirst" -> "cf_match"
                       [] strategy = "networkFirst" -> "nf_fetch"
                       [] strategy = "staleWhileRevalidate" -> "swr_open",
       cacheOps  |-> IF strategy \in {"cacheFirst", "staleWhileRevalidate"} THEN 1 ELSE 0,
       fetches   |-> IF strategy = "networkFirst" THEN 1 ELSE 0,
       net       |-> IF strategy = "networkFirst" THEN "pending" ELSE "none",
       netResp   |-> NoResponse,
       cached    |-> NoResponse,
       put       |-> "none",
       response  |-> NoResponse,
       startAt   |-> now,
       lookupAt  |-> 0,
       putAt     |-> 0,
       stored    |-> NoResponse,
       visible   |-> NoResponse,
       faults    |-> {}]

\* A handler is in flight until it has returned or rejected and its fetch and
\* its put have settled.
InFlight(handler) ==
  \/ handler.pc \notin {"done", "declined", "rejected"}
  \/ handler.net = "pending"
  \/ handler.put = "pending"

\* The model takes a new event while fewer than MaxEvents have arrived and
\* fewer than MaxInFlight handlers are in flight.  The answered requests of
\* one behaviour are for one URL: the cache keys of different URLs never
\* meet, so the behaviours of one key are followed at a time.
Admits(request) ==
  /\ \A h \in 1..Len(handlers) :
       (handlers[h].strategy # "none" /\ Dispatch(request) # "none")
         => handlers[h].req.url = request.url
  /\ Len(handlers) < MaxEvents
  /\ Cardinality({h \in 1..Len(handlers) : InFlight(handlers[h])}) < MaxInFlight

FetchEvent(request) ==
  /\ lifecycle = "activated"
  /\ handlers' = Append(handlers, NewHandler(request, Writes(handlers)))
  /\ UNCHANGED <<swjs, released, booking, lifecycle, caches, installPending, settled, doomed>>

Handlers == 1..Len(handlers)

\* How a settled fetch is recorded.
NetState(outcome) ==
  IF outcome = NoResponse THEN "fail" ELSE IF Ok(outcome) THEN "ok" ELSE "bad"

(***************************************************************************)
(* cacheFirst                                                              *)
(***************************************************************************)
\* Mutant of CacheFirstLookup: the runtime generation alone is searched.
CacheFirstLookupRuntimeOnly(cs, url) == CacheMatch(cs, RUNTIME_CACHE, url)

\* Mutant of CacheFirstLookup: the precache generation alone is searched.
CacheFirstLookupPrecacheOnly(cs, url) == CacheMatch(cs, CACHE_VERSION, url)

\* the lookup cacheFirst makes
CacheFirstLookup(cs, url) == CachesMatch(cs, url)

\* await caches.match(request) resolves
CacheFirstMatch(h) ==
  /\ handlers[h].pc = "cf_match"
  /\ LET cachedResponse == CacheFirstLookup(caches, handlers[h].req.url)
     IN  handlers' =
           IF cachedResponse # NoResponse
           THEN [handlers EXCEPT ![h].cached = cachedResponse,
                                 ![h].lookupAt = Writes(handlers),
                                 ![h].response = cachedResponse,
                                 ![h].pc = "done"]
           ELSE [handlers EXCEPT ![h].net = "pending",
                                 ![h].lookupAt = Writes(handlers),
                                 ![h].fetches = @ + 1,
                                 ![h].pc = "cf_fetch"]
  /\ UNCHANGED <<swjs, released, booking, lifecycle, caches, installPending, settled, doomed>>

\* Mutant of CacheFirstFetch: the response is returned without being stored.
CacheFirstFetchNoStore(h, outcome) ==
  /\ handlers[h].pc = "cf_fetch"
  /\ handlers' =
       IF outcome = NoResponse
       THEN [handlers EXCEPT ![h].net = "fail",
                             ![h].response = AssetNotAvailable,
                             ![h].pc = "done"]
       ELSE [handlers EXCEPT ![h].net = NetState(outcome),
                             ![h].netResp = outcome,
                             ![h].response = outcome,
                             ![h].pc = "done"]
  /\ UNCHANGED <<swjs, released, booking, lifecycle, caches, installPending, settled, doomed>>

\* await fetch(request) settles
CacheFirstFetch(h, outcome) ==
  /\ handlers[h].pc = "cf_fetch"
  /\ handlers' =
       IF outcome = NoResponse
       THEN [handlers EXCEPT ![h].net = "fail",
                             ![h].response = AssetNotAvailable,
                             ![h].pc = "done"]
       ELSE IF Ok(outcome)
       THEN [handlers EXCEPT ![h].net = "ok",
                             ![h].netResp = outcome,
                             ![h].cacheOps = @ + 1,
                             ![h].pc = "cf_open"]
       ELSE [handlers EXCEPT ![h].net = "bad",
                             ![h].netResp = outcome,
                             ![h].response = outcome,
                             ![h].pc = "done"]
  /\ UNCHANGED <<swjs, released, booking, lifecycle, caches, installPending, settled, doomed>>

\* await caches.open(RUNTIME_CACHE) resolves; cache.put is started, not awaited
CacheFirstOpen(h) ==
  /\ handlers[h].pc = "cf_open"
  /\ caches' = CachesOpen(caches, RUNTIME_CACHE)
  /\ handlers' = [handlers EXCEPT ![h].put = "pending",
                                  ![h].cacheOps = @ + 1,
                                  ![h].response = handlers[h].netResp,
                                  ![h].pc = "done"]
  /\ UNCHANGED <<swjs, released, booking, lifecycle, installPending, settled, doomed>>

(***************************************************************************)
(* networkFirst                                                            *)
(***************************************************************************)
\* Mutant of NetworkFirstFetch: a response that is not ok is handled as a
\* failed fetch.
NetworkFirstFetchBadAsFailure(h, outcome) ==
  /\ handlers[h].pc = "nf_fetch"
  /\ handlers' =
       IF outcome = NoResponse \/ ~Ok(outcome)
       THEN [handlers EXCEPT ![h].net = NetState(outcome),
                             ![h].netResp = outcome,
                             ![h].cacheOps = @ + 1,
                             ![h].pc = "nf_match"]
       ELSE [handlers EXCEPT ![h].net = "ok",
                             ![h].netResp = outcome,
                             ![h].cacheOps = @ + 1,
                             ![h].pc = "nf_open"]
  /\ UNCHANGED <<swjs, released, booking, lifecycle, caches, installPending, settled, doomed>>

\* await fetch(request) settles
NetworkFirstFetch(h, outcome) ==
  /\ handlers[h].pc = "nf_fetch"
  /\ handlers' =
       IF outcome = NoResponse
       THEN [handlers EXCEPT ![h].net = "fail",
                             ![h].cacheOps = @ + 1,
                             ![h].pc = "nf_match"]
       ELSE IF Ok(outcome)
       THEN [handlers EXCEPT ![h].net = "ok",
                             ![h].netResp = outcome,
                             ![h].cacheOps = @ + 1,
                             ![h].pc = "nf_open"]
       ELSE [handlers EXCEPT ![h].net = "bad",
                             ![h].netResp = outcome,
                             ![h].response = outcome,
                             ![h].pc = "done"]
  /\ UNCHANGED <<swjs, released, booking, lifecycle, caches, installPending, settled, doomed>>

\* await caches.open(RUNTIME_CACHE) resolves; cache.put is started, not awaited
NetworkFirstOpen(h) ==
  /\ handlers[h].pc = "nf_open"
  /\ caches' = CachesOpen(caches, RUNTIME_CACHE)
  /\ handlers' = [handlers EXCEPT ![h].put = "pending",
                                  ![h].cacheOps = @ + 1,
                                  ![h].response = handlers[h].netResp,
                                  ![h].pc = "done"]
  /\ UNCHANGED <<swjs, released, booking, lifecycle, installPending, settled, doomed>>

\* Mutant of NetworkFirstLookup: the runtime generation alone is searched.
NetworkFirstLookupRuntimeOnly(cs, url) == CacheMatch(cs, RUNTIME_CACHE, url)

\* the lookup a failed fetch falls back to
NetworkFirstLookup(cs, url) == CachesMatch(cs, url)

\* await caches.match(request) resolves, in the catch block
NetworkFirstMatch(h) ==
  /\ handlers[h].pc = "nf_match"
  /\ LET cachedResponse == NetworkFirstLookup(caches, handlers[h].req.url)
     IN  handlers' =
           IF cachedResponse # NoResponse
           THEN [handlers EXCEPT ![h].cached = cachedResponse,
                                 ![h].lookupAt = Writes(handlers),
                                 ![h].response = cachedResponse,
                                 ![h].pc = "done"]
           ELSE [handlers EXCEPT ![h].response = ResourceNotAvailable,
                                 ![h].lookupAt = Writes(handlers),
                                 ![h].pc = "done"]
  /\ UNCHANGED <<swjs, released, booking, lifecycle, caches, installPending, settled, doomed>>

(***************************************************************************)
(* staleWhileRevalidate                                                    *)
(***************************************************************************)
\* Mutant of StaleOpen: the runtime generation of the previous version is
\* opened.
StaleOpenOldRuntime(h) ==
  /\ handlers[h].pc = "swr_open"
  /\ caches' = CachesOpen(caches, OLD_RUNTIME_CACHE)
  /\ handlers' = [handlers EXCEPT ![h].cacheOps = @ + 1,
                                  ![h].pc = "swr_match"]
  /\ UNCHANGED <<swjs, released, booking, lifecycle, installPending, settled, doomed>>

\* await caches.open(RUNTIME_CACHE) resolves; cache.match is called
StaleOpen(h) ==
  /\ handlers[h].pc = "swr_open"
  /\ caches' = CachesOpen(caches, RUNTIME_CACHE)
  /\ handlers' = [handlers EXCEPT ![h].cacheOps = @ + 1,
                                  ![h].pc = "swr_match"]
  /\ UNCHANGED <<swjs, released, booking, lifecycle, installPending, settled, doomed>>

\* Mutant of StaleLookup: the precache generation is searched.
StaleLookupPrecache(cs, url) == CacheMatch(cs, CACHE_VERSION, url)

\* the lookup staleWhileRevalidate makes
StaleLookup(cs, url) == CacheMatch(cs, RUNTIME_CACHE, url)

\* Mutant of StaleAfterLookup: networkFetch is awaited before the cached
\* response is looked at.
StaleAfterLookupAwaits(cachedResponse) == "swr_fetch"

\* The position of the handler once the lookup has resolved and the fetch has
\* been started: it returns the cached response when there is one, and awaits
\* networkFetch when there is none.
StaleAfterLookup(cachedResponse) ==
  IF cachedResponse # NoResponse THEN "done" ELSE "swr_fetch"

\* await cache.match(request) resolves; the fetch is started
StaleMatch(h) ==
  /\ handlers[h].pc = "swr_match"
  /\ LET cachedResponse == StaleLookup(caches, handlers[h].req.url)
         next == StaleAfterLookup(cachedResponse)
     IN  handlers' = [handlers EXCEPT ![h].cached = cachedResponse,
                                      ![h].lookupAt = Writes(handlers),
                                      ![h].net = "pending",
                                      ![h].fetches = @ + 1,
                                      ![h].response =
                                        IF next = "done" THEN cachedResponse ELSE @,
                                      ![h].pc = next]
  /\ UNCHANGED <<swjs, released, booking, lifecycle, caches, installPending, settled, doomed>>

\* Mutant of StaleResult: the failure is answered as networkFirst answers it.
StaleResultUnavailable(outcome) ==
  IF outcome = NoResponse THEN ResourceNotAvailable ELSE outcome

\* networkResponse || new Response('Asset not available', { status: 404 }),
\* networkFetch resolving to null when the fetch failed
StaleResult(outcome) ==
  IF outcome = NoResponse THEN AssetNotAvailable ELSE outcome

\* fetch(request) settles: the then/catch callbacks run, and the handler, when
\* it awaits networkFetch, returns
StaleFetch(h, outcome) ==
  /\ handlers[h].strategy = "staleWhileRevalidate"
  /\ handlers[h].net = "pending"
  /\ LET waiting == handlers[h].pc = "swr_fetch"
     IN  handlers' = [handlers EXCEPT ![h].net = NetState(outcome),
                                      ![h].netResp = outcome,
                                      ![h].put = IF Ok(outcome) THEN "pending" ELSE @,
                                      ![h].cacheOps = IF Ok(outcome) THEN @ + 1 ELSE @,
                                      ![h].response =
                                        IF waiting THEN StaleResult(outcome) ELSE @,
                                      ![h].pc = "done"]
  /\ UNCHANGED <<swjs, released, booking, lifecycle, caches, installPending, settled, doomed>>

(***************************************************************************)
(* A started cache.put(request, networkResponse.clone()) completes.        *)
(***************************************************************************)
\* Mutant of PutComplete: the copy goes to the precache generation.
PutCompleteIntoPrecache(h) ==
  /\ handlers[h].put = "pending"
  /\ caches' = CachePut(caches, CACHE_VERSION, handlers[h].req.url, handlers[h].netResp)
  /\ handlers' = [handlers EXCEPT
       ![h].put = "done",
       ![h].putAt = Writes(handlers) + 1,
       ![h].stored = CacheMatch(caches', RUNTIME_CACHE, handlers[h].req.url),
       ![h].visible = CachesMatch(caches', handlers[h].req.url)]
  /\ UNCHANGED <<swjs, released, booking, lifecycle, installPending, settled, doomed>>

\* Mutant of PutComplete: an entry that exists is not overwritten.
PutCompleteIfAbsent(h) ==
  /\ handlers[h].put = "pending"
  /\ caches' = IF CacheMatch(caches, RUNTIME_CACHE, handlers[h].req.url) # NoResponse
               THEN caches
               ELSE CachePut(caches, RUNTIME_CACHE, handlers[h].req.url, handlers[h].netResp)
  /\ handlers' = [handlers EXCEPT
       ![h].put = "done",
       ![h].putAt = Writes(handlers) + 1,
       ![h].stored = CacheMatch(caches', RUNTIME_CACHE, handlers[h].req.url),
       ![h].visible = CachesMatch(caches', handlers[h].req.url)]
  /\ UNCHANGED <<swjs, released, booking, lifecycle, installPending, settled, doomed>>

PutComplete(h) ==
  /\ handlers[h].put = "pending"
  /\ caches' = CachePut(caches, RUNTIME_CACHE, handlers[h].req.url, handlers[h].netResp)
  /\ handlers' = [handlers EXCEPT
       ![h].put = "done",
       ![h].putAt = Writes(handlers) + 1,
       ![h].stored = CacheMatch(caches', RUNTIME_CACHE, handlers[h].req.url),
       ![h].visible = CachesMatch(caches', handlers[h].req.url)]
  /\ UNCHANGED <<swjs, released, booking, lifecycle, installPending, settled, doomed>>

(***************************************************************************)
(* Failing cache operations of the strategies.  An await outside a try     *)
(* block rejects the strategy's promise, which respondWith is given; one   *)
(* inside the try block of cacheFirst or networkFirst runs the catch block.*)
(* The rejection of a cache.put is handled by nobody.                      *)
(***************************************************************************)
\* await caches.match(request) rejects: cacheFirst rejects
CacheFirstMatchFails(h) ==
  /\ handlers[h].pc = "cf_match"
  /\ handlers' = [handlers EXCEPT ![h].faults = @ \cup {"match"},
                                  ![h].pc = "rejected"]
  /\ UNCHANGED <<swjs, released, booking, lifecycle, caches, installPending, settled, doomed>>

\* await caches.open(RUNTIME_CACHE) rejects inside the try block: the catch
\* block answers 'Asset not available'
CacheFirstOpenFails(h) ==
  /\ handlers[h].pc = "cf_open"
  /\ handlers' = [handlers EXCEPT ![h].faults = @ \cup {"open"},
                                  ![h].response = AssetNotAvailable,
                                  ![h].pc = "done"]
  /\ UNCHANGED <<swjs, released, booking, lifecycle, caches, installPending, settled, doomed>>

\* await caches.open(RUNTIME_CACHE) rejects inside the try block: the catch
\* block looks the request up
NetworkFirstOpenFails(h) ==
  /\ handlers[h].pc = "nf_open"
  /\ handlers' = [handlers EXCEPT ![h].faults = @ \cup {"open"},
                                  ![h].cacheOps = @ + 1,
                                  ![h].pc = "nf_match"]
  /\ UNCHANGED <<swjs, released, booking, lifecycle, caches, installPending, settled, doomed>>

\* await caches.match(request) rejects in the catch block: networkFirst rejects
NetworkFirstMatchFails(h) ==
  /\ handlers[h].pc = "nf_match"
  /\ handlers' = [handlers EXCEPT ![h].faults = @ \cup {"match"},
                                  ![h].pc = "rejected"]
  /\ UNCHANGED <<swjs, released, booking, lifecycle, caches, installPending, settled, doomed>>

\* await caches.open(RUNTIME_CACHE) rejects: staleWhileRevalidate rejects
StaleOpenFails(h) ==
  /\ handlers[h].pc = "swr_open"
  /\ handlers' = [handlers EXCEPT ![h].faults = @ \cup {"open"},
                                  ![h].pc = "rejected"]
  /\ UNCHANGED <<swjs, released, booking, lifecycle, caches, installPending, settled, doomed>>

\* await cache.match(request) rejects: staleWhileRevalidate rejects, no fetch
\* has been started
StaleMatchFails(h) ==
  /\ handlers[h].pc = "swr_match"
  /\ handlers' = [handlers EXCEPT ![h].faults = @ \cup {"match"},
                                  ![h].pc = "rejected"]
  /\ UNCHANGED <<swjs, released, booking, lifecycle, caches, installPending, settled, doomed>>

\* a started cache.put rejects: nothing is stored
PutFails(h) ==
  /\ handlers[h].put = "pending"
  /\ handlers' = [handlers EXCEPT ![h].faults = @ \cup {"put"},
                                  ![h].put = "failed"]
  /\ UNCHANGED <<swjs, released, booking, lifecycle, caches, installPending, settled, doomed>>

(***************************************************************************)
(* The specifications.  Spec follows the worker from its first start:      *)
(* install, activate, then fetch events.  RestartSpec follows a worker     *)
(* that the browser has stopped and started again: it is activated and     *)
(* finds the storage an earlier run left.  RouterSpec examines the fetch   *)
(* listener alone, on every request of AllRequests.                        *)
(***************************************************************************)
LifecycleNext ==
  \/ InstallEvent
  \/ InstallOpen
  \/ \E url \in PRECACHE_ASSETS, outcome \in InstallOutcomes : PrecacheAdd(url, outcome)
  \/ InstallDone
  \/ ActivateEvent
  \/ ActivateKeys
  \/ \E name \in doomed : ActivateDelete(name)
  \/ ActivateClaim

LifecycleFaults ==
  \/ InstallOpenFails
  \/ ActivateKeysFails
  \/ \E name \in doomed : ActivateDeleteFails(name)

HandlerNext ==
  \/ \E h \in Handlers : CacheFirstMatch(h)
  \/ \E h \in Handlers, outcome \in NetworkOutcomes : CacheFirstFetch(h, outcome)
  \/ \E h \in Handlers : CacheFirstOpen(h)
  \/ \E h \in Handlers, outcome \in NetworkOutcomes : NetworkFirstFetch(h, outcome)
  \/ \E h \in Handlers : NetworkFirstOpen(h)
  \/ \E h \in Handlers : NetworkFirstMatch(h)
  \/ \E h \in Handlers : StaleOpen(h)
  \/ \E h \in Handlers : StaleMatch(h)
  \/ \E h \in Handlers, outcome \in NetworkOutcomes : StaleFetch(h, outcome)
  \/ \E h \in Handlers : PutComplete(h)

FetchNext ==
  \/ \E request \in Requests : Admits(request) /\ FetchEvent(request)
  \/ HandlerNext

\* The first run of the worker is followed for MaxFirstRun fetch events.
Next ==
  \/ LifecycleNext
  \/ \E request \in Requests :
       Len(handlers) < MaxFirstRun /\ Admits(request) /\ FetchEvent(request)
  \/ HandlerNext

Spec == Init /\ [][Next]_vars

\* The storage the lifecycle is examined on: any of the generations of the
\* previous version and of an earlier install of this version, the latter
\* captured when the site served NEW.
AllGenerations ==
  << [name |-> OLD_CACHE_VERSION,
      entries |-> [u \in {UrlRoot} |-> Clone(NetworkOk("OLD"))]],
     [name |-> OLD_RUNTIME_CACHE,
      entries |-> [u \in {UrlStyles} |-> Clone(NetworkOk("OLD"))]],
     [name |-> CACHE_VERSION,
      entries |-> [u \in {UrlLogo} |-> Clone(NetworkOk("NEW"))]],
     [name |-> RUNTIME_CACHE,
      entries |-> [u \in {UrlStyles} |-> Clone(NetworkOk("NEW"))]] >>

LifecycleStorages ==
  {SelectSeq(AllGenerations, LAMBDA g : g.name \in names) :
     names \in SUBSET GenNames(AllGenerations)}

LifecycleInit ==
  /\ lifecycle = "parsed"
  /\ caches \in LifecycleStorages
  /\ installPending = {}
  /\ settled = << >>
  /\ doomed = {}
  /\ handlers = << >>
  /\ AsShipped

LifecycleStep == LifecycleNext \/ LifecycleFaults

LifecycleSpec == LifecycleInit /\ [][LifecycleStep]_vars

\* Every operation the lifecycle has started settles.
LifecycleFairSpec == LifecycleSpec /\ WF_vars(LifecycleStep)

\* Storage an earlier run of this version can have left: everything
\* precached and the stylesheet refreshed once, everything precached and
\* nothing stored at run time, or nothing precached at all.
RestartStorages ==
  { << [name |-> CACHE_VERSION,
        entries |-> [u \in PRECACHE_ASSETS |-> Clone(NetworkOk("OLD"))]],
       [name |-> RUNTIME_CACHE,
        entries |-> [u \in {UrlStyles} |-> Clone(NetworkOk("OLD"))]] >>,
    << [name |-> CACHE_VERSION,
        entries |-> [u \in PRECACHE_ASSETS |-> Clone(NetworkOk("OLD"))]] >>,
    << [name |-> CACHE_VERSION, entries |-> EmptyEntries] >> }

RestartInit ==
  /\ lifecycle = "activated"
  /\ caches \in RestartStorages
  /\ installPending = {}
  /\ settled = << >>
  /\ doomed = {}
  /\ handlers = << >>
  /\ AsShipped

RestartSpec == RestartInit /\ [][FetchNext]_vars

\* The operations of handler h that can settle, resolved or rejected.
Settles(h) ==
  /\ h \in Handlers
  /\ \/ CacheFirstMatch(h)
     \/ \E outcome \in NetworkOutcomes : CacheFirstFetch(h, outcome)
     \/ CacheFirstOpen(h)
     \/ \E outcome \in NetworkOutcomes : NetworkFirstFetch(h, outcome)
     \/ NetworkFirstOpen(h)
     \/ NetworkFirstMatch(h)
     \/ StaleOpen(h)
     \/ StaleMatch(h)
     \/ \E outcome \in NetworkOutcomes : StaleFetch(h, outcome)
     \/ PutComplete(h)
     \/ CacheFirstMatchFails(h)
     \/ CacheFirstOpenFails(h)
     \/ NetworkFirstOpenFails(h)
     \/ NetworkFirstMatchFails(h)
     \/ StaleOpenFails(h)
     \/ StaleMatchFails(h)
     \/ PutFails(h)

HandlerFaults ==
  \/ \E h \in Handlers : CacheFirstMatchFails(h)
  \/ \E h \in Handlers : CacheFirstOpenFails(h)
  \/ \E h \in Handlers : NetworkFirstOpenFails(h)
  \/ \E h \in Handlers : NetworkFirstMatchFails(h)
  \/ \E h \in Handlers : StaleOpenFails(h)
  \/ \E h \in Handlers : StaleMatchFails(h)
  \/ \E h \in Handlers : PutFails(h)

\* Every earlier event has been answered (or declined, or its handler has
\* rejected); its fetch and its put can still be outstanding.
AllReturned ==
  \A h \in Handlers : handlers[h].pc \in {"done", "declined", "rejected"}

\* A restarted worker whose page sends each request after it has got the
\* answer to the one before.
SerialNext ==
  \/ \E request \in Requests :
       AllReturned /\ Admits(request) /\ FetchEvent(request)
  \/ HandlerNext

SerialSpec == RestartInit /\ [][SerialNext]_vars

\* The same with cache operations that can reject, followed for MaxFaulty
\* fetch events.
FaultNext ==
  \/ \E request \in Requests :
       /\ Len(handlers) < MaxFaulty
       /\ AllReturned /\ Admits(request) /\ FetchEvent(request)
  \/ HandlerNext
  \/ HandlerFaults

FaultSpec == RestartInit /\ [][FaultNext]_vars

\* Every fetch and every cache operation a handler has started settles.
FaultFairSpec == FaultSpec /\ \A h \in 1..MaxFaulty : WF_vars(Settles(h))

RouterInit ==
  /\ lifecycle = "activated"
  /\ caches = << [name |-> CACHE_VERSION, entries |-> EmptyEntries] >>
  /\ installPending = {}
  /\ settled = << >>
  /\ doomed = {}
  /\ handlers = << >>
  /\ AsShipped

RouterNext ==
  \E request \in AllRequests : Len(handlers) < MaxRouted /\ FetchEvent(request)

RouterSpec == RouterInit /\ [][RouterNext]_vars

\* Concurrent requests for the stylesheet, handled by staleWhileRevalidate
\* with free interleaving of the handlers' steps, the runtime generation
\* holding a copy of it from an earlier run.
RefreshInit ==
  /\ lifecycle = "activated"
  /\ caches = << [name |-> CACHE_VERSION,
                  entries |-> [u \in PRECACHE_ASSETS |-> Clone(NetworkOk("OLD"))]],
                 [name |-> RUNTIME_CACHE,
                  entries |-> [u \in {UrlStyles} |-> Clone(NetworkOk("OLD"))]] >>
  /\ installPending = {}
  /\ settled = << >>
  /\ doomed = {}
  /\ handlers = << >>
  /\ AsShipped

RefreshNext ==
  \/ \E request \in {Request("same", "GET", UrlStyles, AcceptAny)} :
       Admits(request) /\ FetchEvent(request)
  \/ \E h \in Handlers : StaleOpen(h)
  \/ \E h \in Handlers : StaleMatch(h)
  \/ \E h \in Handlers, outcome \in NetworkOutcomes : StaleFetch(h, outcome)
  \/ \E h \in Handlers : PutComplete(h)

RefreshSpec == RefreshInit /\ [][RefreshNext]_vars

(***************************************************************************)
(* Releases: runs of cache-bust.sh, and browsers updating to the worker    *)
(* that sw.js defines at that moment.                                      *)
(***************************************************************************)
\* One run of the script.  With set -euo pipefail the script stops before
\* the bump when a grep finds nothing.
CacheBust ==
  /\ GrepFirst(swjs, PrecachePrefix) # << >>
  /\ GrepFirst(swjs, RuntimePrefix) # << >>
  /\ FromDecimal(GrepFirst(swjs, PrecachePrefix)) < MaxVersion
  /\ FromDecimal(GrepFirst(swjs, RuntimePrefix)) < MaxVersion
  /\ swjs' = CacheBustRun(swjs)
  /\ released' = released \cup WorkerNames(swjs)
  /\ UNCHANGED <<lifecycle, caches, installPending, settled, doomed, handlers, booking>>

\* The browser installs and activates the worker of the present sw.js:
\* install opens the precache generation, activate deletes every generation
\* that has neither of the worker's two names; served: the worker then
\* handles a request, which opens its runtime generation.
WorkerUpdate(served) ==
  /\ LET installed == CachesOpen(caches, WorkerCacheVersion(swjs))
         swept == SelectSeq(installed, LAMBDA g : g.name \in WorkerNames(swjs))
     IN  caches' = IF served THEN CachesOpen(swept, WorkerRuntimeCache(swjs))
                   ELSE swept
  /\ caches' # caches
  /\ UNCHANGED <<swjs, released, lifecycle, installPending, settled, doomed, handlers, booking>>

StartVersions == {9, CURRENT_VERSION}

\* A site whose worker of the starting version is installed and has served.
BumpInit ==
  /\ \E n \in StartVersions :
       /\ swjs = SwJs(n, n)
       /\ caches = << [name |-> WorkerCacheVersion(SwJs(n, n)), entries |-> EmptyEntries],
                      [name |-> WorkerRuntimeCache(SwJs(n, n)), entries |-> EmptyEntries] >>
  /\ released = {}
  /\ lifecycle = "activated"
  /\ installPending = {}
  /\ settled = << >>
  /\ doomed = {}
  /\ handlers = << >>
  /\ booking = BookIdle

BumpNext ==
  \/ CacheBust
  \/ \E served \in BOOLEAN : WorkerUpdate(served)

BumpSpec == BumpInit /\ [][BumpNext]_vars

(***************************************************************************)
(* The booking function: exports.handler, gasPost and sendNotification.    *)
(***************************************************************************)
\* Mutant of RedirectLimit: one more redirect is followed.
RedirectLimitLate(depth) == depth > MaxRedirects + 1

\* if (depth > 5) throw new Error('Too many redirects')
RedirectLimit(depth) == depth > MaxRedirects

\* The handler is invoked.  OPTIONS is answered at once; POST calls
\* gasPost(GAS_URL, event.body, 0), which issues its first fetch; any other
\* method fetches the backend with the query string (single-date mode).
BookEvent(httpMethod, body, apiKey) ==
  /\ booking.pc = "idle"
  /\ booking' =
       IF httpMethod = "OPTIONS"
       THEN [booking EXCEPT !.httpMethod = httpMethod, !.body = body, !.apiKey = apiKey,
                            !.response = Result(204, ""), !.pc = "done"]
       ELSE IF httpMethod = "POST"
       THEN [booking EXCEPT !.httpMethod = httpMethod, !.body = body, !.apiKey = apiKey,
                            !.posts = <<[url |-> GAS_URL, body |-> body]>>,
                            !.pc = "gas"]
       ELSE [booking EXCEPT !.httpMethod = httpMethod, !.body = body, !.apiKey = apiKey,
                            !.pc = "get"]
  /\ UNCHANGED <<swjs, released, lifecycle, caches, installPending, settled, doomed, handlers>>

\* The booking as it stands when gasPost has returned text: JSON.parse and
\* sendNotification run up to the fetch of the mail service.  A body that
\* does not parse, and a property read on null, throw into the inner catch;
\* without an API key sendNotification returns before it reads the booking.
AfterGas(b, text) ==
  LET parsed == JsonParse(b.body)
      back == [b EXCEPT !.returned = TRUE, !.text = text]
  IN  IF parsed = "SyntaxError"
      THEN [back EXCEPT !.mail = "unparsable", !.response = Result(200, text), !.pc = "done"]
      ELSE IF ~b.apiKey
      THEN [back EXCEPT !.mail = "skipped", !.response = Result(200, text), !.pc = "done"]
      ELSE IF parsed = "null"
      THEN [back EXCEPT !.mail = "threw", !.response = Result(200, text), !.pc = "done"]
      ELSE [back EXCEPT !.mail = "pending", !.pc = "mail"]

\* The booking as it stands when an error reaches the outer catch.
Caught(b, err) ==
  [b EXCEPT !.err = err, !.response = Result(200, ErrorBody(err)), !.pc = "done"]

\* await fetch(url, { method: 'POST', body, redirect: 'manual' }) of gasPost
\* settles.  A 3xx status calls gasPost(location, body, depth + 1), which
\* throws beyond the limit and otherwise issues the next fetch.
GasResponds(res) ==
  /\ booking.pc = "gas"
  /\ booking' =
       IF res = GasRejects THEN Caught(booking, FetchFailed)
       ELSE IF res.status >= 300 /\ res.status < 400
       THEN IF RedirectLimit(booking.depth + 1) THEN Caught(booking, TooManyRedirects)
            ELSE IF res.location = NoLocation THEN Caught(booking, InvalidUrl)
            ELSE [booking EXCEPT !.depth = @ + 1,
                                 !.posts = Append(@, [url |-> res.location, body |-> booking.body])]
       ELSE AfterGas(booking, res.text)
  /\ UNCHANGED <<swjs, released, lifecycle, caches, installPending, settled, doomed, handlers>>

\* Mutant of MailResponds: the fetch of sendNotification is outside its try.
MailRespondsUncaught(outcome) ==
  /\ booking.pc = "mail"
  /\ booking' =
       IF outcome = "error"
       THEN Caught([booking EXCEPT !.mail = outcome], FetchFailed)
       ELSE [booking EXCEPT !.mail = outcome,
                            !.response = Result(200, booking.text),
                            !.pc = "done"]
  /\ UNCHANGED <<swjs, released, lifecycle, caches, installPending, settled, doomed, handlers>>

\* The fetch of the mail service settles: sent (res.ok), rejected (a status
\* that is not ok, logged) or error (the fetch throws, caught and logged);
\* the handler returns the backend's text.
MailResponds(outcome) ==
  /\ booking.pc = "mail"
  /\ booking' = [booking EXCEPT !.mail = outcome,
                                !.response = Result(200, booking.text),
                                !.pc = "done"]
  /\ UNCHANGED <<swjs, released, lifecycle, caches, installPending, settled, doomed, handlers>>

\* await fetch(url, { redirect: 'follow' }) and res.text() of the
\* single-date mode settle.
GetResponds(res) ==
  /\ booking.pc = "get"
  /\ booking' =
       IF res = GasRejects THEN Caught(booking, FetchFailed)
       ELSE [booking EXCEPT !.returned = TRUE, !.text = res.text,
                            !.response = Result(200, res.text), !.pc = "done"]
  /\ UNCHANGED <<swjs, released, lifecycle, caches, installPending, settled, doomed, handlers>>

BookInit ==
  /\ lifecycle = "parsed"
  /\ caches = << >>
  /\ installPending = {}
  /\ settled = << >>
  /\ doomed = {}
  /\ handlers = << >>
  /\ AsShipped

BookNext ==
  \/ \E httpMethod \in {"OPTIONS", "POST", "GET"}, body \in EventBodies, apiKey \in BOOLEAN :
       BookEvent(httpMethod, body, apiKey)
  \/ \E res \in GasOutcomes : GasResponds(res)
  \/ \E outcome \in {"sent", "rejected", "error"} : MailResponds(outcome)
  \/ \E res \in {r \in GasOutcomes : r.status \notin 300..399} : GetResponds(res)

BookSpec == BookInit /\ [][BookNext]_vars

(***************************************************************************)
(* The properties.                                                         *)
(***************************************************************************)
\* A request the listener answers: same-origin and GET.
Intercepted(request) == request.origin = "same" /\ request.method = "GET"

\* The generations holding a copy of url, and the responses a lookup of url
\* can yield from them.
Holders(cs, url) == {i \in 1..Len(cs) : url \in DOMAIN cs[i].entries}
Copies(cs, url) == {FromCache(cs[i].entries[url]) : i \in Holders(cs, url)}

\* C1: respondWith is called exactly for the same-origin GET requests; for a
\* cross-origin or non-GET request the listener declines, and that event never
\* starts a network fetch or a cache operation (match, open or put).
C1_OnlySameOriginGetIntercepted ==
  \A h \in Handlers :
    LET e == handlers[h]
    IN  /\ (e.responded = 1) <=> Intercepted(e.req)
        /\ ~Intercepted(e.req) =>
              /\ e.responded = 0
              /\ e.fetches = 0
              /\ e.net = "none"
              /\ e.cacheOps = 0
              /\ e.put = "none"
              /\ e.response = NoResponse

C1_Witness ==
  \E h1, h2, h3 \in Handlers :
    /\ handlers[h1].req.origin = "cross" /\ handlers[h1].responded = 0
    /\ handlers[h2].req.origin = "same" /\ handlers[h2].req.method = "POST"
    /\ handlers[h2].responded = 0
    /\ Intercepted(handlers[h3].req) /\ handlers[h3].pc = "done"

\* C2: every same-origin GET request gets exactly one respondWith, with the
\* strategy of its class, the classes being tested in the router's order:
\* HTML/navigation -> networkFirst, else image -> cacheFirst, else static ->
\* staleWhileRevalidate, else networkFirst; two requests with the same path
\* and Accept header get the same strategy.
C2_ExactlyOneStrategy ==
  \A h \in Handlers :
    LET e == handlers[h]
        pathname == Pathname(e.req.url)
        html == isHTMLRequest(e.req)
        image == isImageAsset(pathname)
        static == isStaticAsset(pathname)
    IN  Intercepted(e.req) =>
          /\ e.responded = 1
          /\ e.strategy \in {"networkFirst", "cacheFirst", "staleWhileRevalidate"}
          /\ html => e.strategy = "networkFirst"
          /\ (~html /\ image) => e.strategy = "cacheFirst"
          /\ (~html /\ ~image /\ static) => e.strategy = "staleWhileRevalidate"
          /\ (~html /\ ~image /\ ~static) => e.strategy = "networkFirst"
          /\ \A g \in Handlers :
                ( /\ Intercepted(handlers[g].req)
                  /\ Pathname(handlers[g].req.url) = pathname
                  /\ handlers[g].req.accept = e.req.accept )
                => handlers[g].strategy = e.strategy

C2_Witness ==
  \E h, g \in Handlers :
    /\ handlers[h].req = Request("same", "GET", UrlData, AcceptAny)
    /\ handlers[h].strategy = "networkFirst"
    /\ handlers[g].req = Request("same", "GET", UrlLogo, AcceptNone)
    /\ handlers[g].strategy = "cacheFirst"

\* C3: a networkFirst handler whose fetch succeeded with a 2xx response
\* returns that response, and once its put has completed a lookup of the
\* request across all generations (caches.match) yields the new body.
C3_NetworkFirstCacheMatchesNetwork ==
  \A h \in Handlers :
    LET e == handlers[h]
    IN  (e.strategy = "networkFirst" /\ e.net = "ok") =>
          /\ e.pc = "done" => e.response = e.netResp
          /\ e.put = "done" => e.visible = FromCache(Clone(e.netResp))

\* C4: a networkFirst handler whose fetch failed looks the request up; it
\* returns a copy held by some generation when its lookup finds the request
\* in any generation, and the synthetic 503 'Resource not available'
\* exactly when no generation holds it.
C4_NetworkFirstFallback ==
  /\ [](\A h \in Handlers :
          LET e == handlers[h]
          IN  (e.strategy = "networkFirst" /\ e.net = "fail") =>
                /\ e.pc \in {"nf_match", "done"}
                /\ e.put = "none"
                /\ e.pc = "done" =>
                      \/ e.response.src = "cache"
                      \/ e.response = ResourceNotAvailable)
  /\ [][\A h \in Handlers :
          (handlers[h].pc = "nf_match" /\ handlers'[h].pc = "done") =>
            IF Holders(caches, handlers[h].req.url) # {}
            THEN handlers'[h].response \in Copies(caches, handlers[h].req.url)
            ELSE handlers'[h].response = ResourceNotAvailable]_vars

C4_Witness ==
  \E h \in Handlers :
    /\ handlers[h].strategy = "networkFirst"
    /\ handlers[h].net = "fail"
    /\ handlers[h].pc = "done"
    /\ handlers[h].response.src = "cache"
    /\ CacheMatch(caches, RUNTIME_CACHE, handlers[h].req.url) = NoResponse

\* C5: when some generation holds the request at the time cacheFirst's
\* lookup resolves, the handler returns a cached copy in that step, and it
\* never starts a network fetch, a put or any other cache operation.
C5_CacheFirstHit ==
  /\ [](\A h \in Handlers :
          LET e == handlers[h]
          IN  (e.strategy = "cacheFirst" /\ e.cached # NoResponse) =>
                /\ e.pc = "done"
                /\ e.response = e.cached
                /\ e.fetches = 0
                /\ e.net = "none"
                /\ e.put = "none"
                /\ e.cacheOps = 1)
  /\ [][\A h \in Handlers :
          ( /\ handlers[h].pc = "cf_match"
            /\ handlers'[h].pc # "cf_match"
            /\ Holders(caches, handlers[h].req.url) # {} ) =>
            /\ handlers'[h].pc = "done"
            /\ handlers'[h].response \in Copies(caches, handlers[h].req.url)
            /\ handlers'[h].fetches = 0
            /\ caches' = caches]_vars

C5_Witness ==
  \E h \in Handlers :
    /\ handlers[h].strategy = "cacheFirst"
    /\ handlers[h].pc = "done"
    /\ handlers[h].response.src = "cache"
    /\ handlers[h].fetches = 0

\* C6: a cacheFirst handler whose lookup missed fetches exactly once; on a
\* 2xx response it returns the response and starts a put whose completion
\* leaves a copy under the request in the runtime generation; on a failed
\* fetch it returns the synthetic 404 'Asset not available' and has started
\* no cache operation besides its lookup.
C6_CacheFirstMiss ==
  \A h \in Handlers :
    LET e == handlers[h]
        missed == \/ e.pc \in {"cf_fetch", "cf_open"}
                  \/ e.pc = "done" /\ e.cached = NoResponse
    IN  (e.strategy = "cacheFirst" /\ missed) =>
          /\ e.fetches = 1
          /\ (e.pc = "done" /\ e.net = "ok") =>
                /\ e.response = e.netResp
                /\ e.put \in {"pending", "done"}
                /\ e.put = "done" => e.stored = FromCache(Clone(e.netResp))
          /\ e.net = "fail" =>
                /\ e.pc = "done"
                /\ e.response = AssetNotAvailable
                /\ e.put = "none"
                /\ e.cacheOps = 1

C6_Witness ==
  \E h, g \in Handlers :
    /\ handlers[h].strategy = "cacheFirst"
    /\ handlers[h].net = "ok"
    /\ handlers[h].put = "done"
    /\ handlers[h].response = handlers[h].netResp
    /\ CacheMatch(caches, RUNTIME_CACHE, handlers[h].req.url).body = handlers[h].netResp.body
    /\ handlers[g].strategy = "cacheFirst"
    /\ handlers[g].net = "fail"
    /\ handlers[g].response = AssetNotAvailable

\* C7: a staleWhileRevalidate handler whose lookup found a cached response
\* has returned it in every state from that lookup on, whatever the state of
\* its network fetch, also while the fetch is still pending.
C7_StaleHitReturnsAtOnce ==
  \A h \in Handlers :
    LET e == handlers[h]
    IN  (e.strategy = "staleWhileRevalidate" /\ e.cached # NoResponse) =>
          /\ e.pc = "done"
          /\ e.response = e.cached

C7_Witness ==
  \E h \in Handlers :
    /\ handlers[h].strategy = "staleWhileRevalidate"
    /\ handlers[h].cached # NoResponse
    /\ handlers[h].net = "pending"
    /\ handlers[h].pc = "done"
    /\ handlers[h].response = handlers[h].cached

\* A staleWhileRevalidate handler that found OLD, fetched a different 2xx
\* body NEW, and whose put has completed.
Refreshed(e) ==
  /\ e.strategy = "staleWhileRevalidate"
  /\ e.cached # NoResponse
  /\ e.net = "ok"
  /\ e.netResp.body # e.cached.body
  /\ e.put = "done"

\* C8 as stated: the refreshing handler returned OLD, its put left NEW in
\* the runtime generation, and every staleWhileRevalidate handler for the
\* same URL that started after that put completed returns NEW.
C8_LaterRequestsReturnNew ==
  \A a \in Handlers :
    Refreshed(handlers[a]) =>
      /\ handlers[a].response = handlers[a].cached
      /\ handlers[a].stored = FromCache(Clone(handlers[a].netResp))
      /\ \A c \in Handlers :
            ( /\ handlers[c].strategy = "staleWhileRevalidate"
              /\ handlers[c].req.url = handlers[a].req.url
              /\ handlers[c].startAt >= handlers[a].putAt
              /\ handlers[c].pc = "done" )
            => handlers[c].response.body = handlers[a].netResp.body

\* C8 as amended: the refreshing handler returned OLD, its put left NEW in
\* the runtime generation, and a staleWhileRevalidate handler for the same
\* URL whose lookup resolved after that put, with no other put for the URL
\* completed in between, returns NEW.
C8_NextLookupReturnsNew ==
  \A a \in Handlers :
    Refreshed(handlers[a]) =>
      /\ handlers[a].response = handlers[a].cached
      /\ handlers[a].stored = FromCache(Clone(handlers[a].netResp))
      /\ \A c \in Handlers :
            ( /\ handlers[c].strategy = "staleWhileRevalidate"
              /\ handlers[c].req.url = handlers[a].req.url
              /\ handlers[c].net # "none"
              /\ handlers[c].lookupAt >= handlers[a].putAt
              /\ ~\E b \in Handlers :
                    /\ handlers[b].req.url = handlers[a].req.url
                    /\ handlers[b].putAt > handlers[a].putAt
                    /\ handlers[b].putAt <= handlers[c].lookupAt )
            => /\ handlers[c].pc = "done"
               /\ handlers[c].response = FromCache(Clone(handlers[a].netResp))

C8_Witness ==
  \E a, c \in Handlers :
    /\ Refreshed(handlers[a])
    /\ handlers[a].response.body = "OLD"
    /\ handlers[a].netResp.body = "NEW"
    /\ handlers[c].strategy = "staleWhileRevalidate"
    /\ handlers[c].req.url = handlers[a].req.url
    /\ handlers[c].startAt >= handlers[a].putAt
    /\ handlers[c].pc = "done"
    /\ handlers[c].response.body = "NEW"

\* C9: a staleWhileRevalidate handler whose lookup found nothing awaits its
\* fetch and returns the network response, or the synthetic 404 'Asset not
\* available' when the fetch failed; one whose lookup found a cached
\* response and whose fetch failed has returned the cached response, has
\* started no put, and has completed.
C9_StaleMissAndFailedRefresh ==
  \A h \in Handlers :
    LET e == handlers[h]
    IN  (e.strategy = "staleWhileRevalidate" /\ e.net # "none") =>
          /\ (e.cached = NoResponse /\ e.net = "pending") =>
                e.pc = "swr_fetch" /\ e.response = NoResponse
          /\ (e.cached = NoResponse /\ e.net \in {"ok", "bad"}) =>
                e.pc = "done" /\ e.response = e.netResp
          /\ (e.cached = NoResponse /\ e.net = "fail") =>
                e.pc = "done" /\ e.response = AssetNotAvailable
          /\ (e.cached # NoResponse /\ e.net = "fail") =>
                /\ e.pc = "done"
                /\ e.response = e.cached
                /\ e.put = "none"
                /\ e.cacheOps = 2

C9_Witness ==
  \E h, g \in Handlers :
    /\ handlers[h].strategy = "staleWhileRevalidate"
    /\ handlers[h].cached = NoResponse
    /\ handlers[h].net = "fail"
    /\ handlers[h].response = AssetNotAvailable
    /\ handlers[g].strategy = "staleWhileRevalidate"
    /\ handlers[g].cached # NoResponse
    /\ handlers[g].net = "fail"
    /\ handlers[g].response = handlers[g].cached

\* C10: whenever a handler of any strategy returns after its network fetch
\* failed, it returns a cached copy if some generation (precache or runtime)
\* holds the request, and a synthetic error response only if none does.
C10_FailedFetchFallsBackToAnyGeneration ==
  [][\A h \in Handlers :
       ( /\ handlers[h].pc # "done"
         /\ handlers'[h].pc = "done"
         /\ handlers'[h].net = "fail" ) =>
         IF Holders(caches, handlers[h].req.url) # {}
         THEN handlers'[h].response \in Copies(caches, handlers[h].req.url)
         ELSE handlers'[h].response.src = "synthetic"]_vars

\* The worker has been installed: skipWaiting has been called.
PostInstall ==
  {"installed", "activate_keys", "sweeping", "activate_rejected", "activated"}

CurrentNames == {CACHE_VERSION, RUNTIME_CACHE}

\* C11: every entry of every cache generation holds a 2xx response with a
\* body the network served: neither precache population nor a strategy ever
\* writes a non-2xx network response or a synthetic 404/503.
C11_OnlySuccessfulResponsesStored ==
  \A i \in 1..Len(caches) :
    \A u \in DOMAIN caches[i].entries :
      /\ Ok(caches[i].entries[u])
      /\ caches[i].entries[u].body \in Bodies

C11_Witness ==
  /\ \E u \in PRECACHE_ASSETS : u \in DOMAIN settled /\ ~settled[u]
  /\ \E u \in PRECACHE_ASSETS : CacheMatch(caches, CACHE_VERSION, u) # NoResponse
  /\ \E h, g \in Handlers :
        /\ handlers[h].put = "done"
        /\ handlers[g].net = "bad"
        /\ handlers[g].pc = "done"
        /\ handlers[g].response = NetworkError

\* C12: once activation has completed no generation with a name other than
\* the current precache and runtime names exists, and no step of the
\* activation removes or changes a generation carrying a current name.
C12_ActivationSweep ==
  /\ [](lifecycle = "activated" => GenNames(caches) \subseteq CurrentNames)
  /\ [][(lifecycle \in {"activate_keys", "sweeping", "activate_rejected"}) =>
          \A i \in 1..Len(caches) :
            caches[i].name \in CurrentNames =>
              \E j \in 1..Len(caches') : caches'[j] = caches[i] ]_vars

C12_Witness ==
  /\ lifecycle = "activated"
  /\ GenNames(caches) = CurrentNames
  /\ CacheMatch(caches, RUNTIME_CACHE, UrlStyles) = FromCache(Clone(NetworkOk("NEW")))

\* C13: whichever precache assets fail, every asset whose cache.add resolved
\* is stored in the precache generation (also when none did and the
\* generation is empty), and an install that has begun to precache always
\* completes and signals skipWaiting.
C13_InstallToleratesPartialFailure ==
  /\ [](/\ \A u \in DOMAIN settled :
             settled[u] =>
               CacheMatch(caches, CACHE_VERSION, u) = FromCache(Clone(NetworkOk("OLD")))
        /\ lifecycle \in PostInstall =>
             /\ HasGen(caches, CACHE_VERSION)
             /\ DOMAIN settled = PRECACHE_ASSETS)
  /\ ((lifecycle = "precaching") ~> (lifecycle = "installed"))

C13_Witness ==
  /\ lifecycle = "installed"
  /\ \E u, v \in PRECACHE_ASSETS :
        /\ ~settled[u]
        /\ CacheMatch(caches, CACHE_VERSION, u) = NoResponse
        /\ settled[v]
        /\ CacheMatch(caches, CACHE_VERSION, v) # NoResponse

\* C14: skipWaiting has been called only when every precache attempt has
\* settled, and clients.claim only when every deletion has completed and no
\* stale generation exists.
C14_LifecycleOrdering ==
  /\ lifecycle \in PostInstall =>
        /\ installPending = {}
        /\ DOMAIN settled = PRECACHE_ASSETS
  /\ lifecycle = "activated" =>
        /\ doomed = {}
        /\ \A name \in GenNames(caches) : ~Stale(name)

C14_Witness ==
  /\ lifecycle = "activated"
  /\ \E u \in PRECACHE_ASSETS : ~settled[u]
  /\ \E u \in PRECACHE_ASSETS : settled[u]

\* C15: a failure of caches.open during install, or of caches.keys or
\* caches.delete during activation, is swallowed: the install still
\* signals skipWaiting and the activation still claims the clients, and
\* neither rejects.
C15_LifecycleFailuresSwallowed ==
  lifecycle \notin {"install_rejected", "activate_rejected"}

\* C16: whatever the network outcome and the cache state, and also when a
\* cache operation (open, match, put) rejects, no strategy rejects: every
\* handler that has finished has returned a concrete response (live, cached
\* or synthetic), and no rejection of a put is left unhandled.
C16_NoStrategyRejects ==
  \A h \in Handlers :
    /\ handlers[h].pc # "rejected"
    /\ handlers[h].put # "failed"
    /\ handlers[h].pc = "done" =>
          handlers[h].response.src \in {"network", "cache", "synthetic"}

\* C17: when every fetch and every cache operation settles (resolves or
\* rejects), every intercepted request is eventually answered with a
\* response.
C17_EveryInterceptedRequestAnswered ==
  \A h \in 1..MaxFaulty :
    (h \in Handlers /\ handlers[h].responded = 1)
      ~> ( /\ h \in Handlers
           /\ handlers[h].pc = "done"
           /\ handlers[h].response # NoResponse )

\* Two handlers of cacheFirst for the same URL.
SameImage(h, g) ==
  /\ handlers[h].strategy = "cacheFirst"
  /\ handlers[g].strategy = "cacheFirst"
  /\ handlers[g].req.url = handlers[h].req.url

\* C18: once a cacheFirst request has been served a 2xx response from the
\* network, every cacheFirst request for the same key that arrives later is
\* served from cache and starts no network fetch.
C18_AtMostOneFetchPerColdEntry ==
  \A h, g \in Handlers :
    ( /\ h < g
      /\ SameImage(h, g)
      /\ handlers[h].net = "ok"
      /\ handlers[h].pc = "done" )
    => /\ handlers[g].fetches = 0
       /\ handlers[g].pc = "done" => handlers[g].response.src = "cache"

\* C18 as amended: once the put of a 2xx response that cacheFirst fetched
\* has completed, every cacheFirst request for the same key whose lookup
\* resolves after that is served from cache and starts no network fetch.
C18_NoFetchOncePutCompleted ==
  \A h, g \in Handlers :
    ( /\ SameImage(h, g)
      /\ handlers[h].put = "done"
      /\ handlers[g].pc # "cf_match"
      /\ handlers[g].lookupAt >= handlers[h].putAt )
    => /\ handlers[g].fetches = 0
       /\ handlers[g].net = "none"
       /\ handlers[g].pc = "done"
       /\ handlers[g].response.src = "cache"

C18_Witness ==
  \E h, g \in Handlers :
    /\ h < g
    /\ SameImage(h, g)
    /\ handlers[h].net = "ok"
    /\ handlers[h].put = "done"
    /\ handlers[g].startAt >= handlers[h].putAt
    /\ handlers[g].pc = "done"
    /\ handlers[g].fetches = 0
    /\ handlers[g].response.src = "cache"

Finished(e) == e.pc \in {"done", "rejected"}

\* What the handler gave its caller: rejection, or status and body.
Outcome(e) == <<e.pc, e.response.status, e.response.body>>

\* Handler g repeats the request of handler h, and no put has completed
\* since h started.
Repeats(h, g) ==
  /\ h < g
  /\ handlers[h].strategy # "none"
  /\ handlers[g].req = handlers[h].req
  /\ Finished(handlers[h])
  /\ Finished(handlers[g])
  /\ Writes(handlers) = handlers[h].startAt

\* The fetch the handler waited for before it returned: none when the
\* lookup of cacheFirst or staleWhileRevalidate found a response.
Awaited(e) ==
  IF e.strategy \in {"cacheFirst", "staleWhileRevalidate"} /\ e.cached # NoResponse
  THEN <<"none">>
  ELSE <<e.net, e.netResp.status, e.netResp.body>>

\* C20: repeating an identical request while no cache generation changes
\* between the repetitions yields the same status and body.
C20_Idempotent ==
  \A h, g \in Handlers :
    ( /\ Repeats(h, g)
      /\ handlers[h].faults = {}
      /\ handlers[g].faults = {} )
    => Outcome(handlers[h]) = Outcome(handlers[g])

\* C20 as amended: the repetitions have the same outcome when the fetches
\* the strategy waited for and its cache operations settled the same way in
\* both.
C20_SameSettlementsSameOutcome ==
  \A h, g \in Handlers :
    ( /\ Repeats(h, g)
      /\ handlers[h].faults \ {"put"} = handlers[g].faults \ {"put"}
      /\ Awaited(handlers[h]) = Awaited(handlers[g]) )
    => Outcome(handlers[h]) = Outcome(handlers[g])

C20_Witness ==
  \E h, g \in Handlers :
    /\ Repeats(h, g)
    /\ handlers[h].strategy = "staleWhileRevalidate"
    /\ handlers[h].cached # NoResponse
    /\ handlers[h].net = "ok"
    /\ handlers[g].net = "fail"
    /\ handlers[h].response = handlers[g].response
    /\ handlers[g].response.src = "cache"


\* The path's last segment has a file extension: a dot after the last slash.
HasExtension(pathname) ==
  \E i \in 1..Len(pathname) :
    /\ pathname[i] = "."
    /\ \A j \in (i + 1)..Len(pathname) : pathname[j] # "/"

\* The path begins with the images directory prefix.
ImagePrefixed(pathname) == StartsWith(pathname, <<"/","i","m","a","g","e","s","/">>)

\* The path ends in a stylesheet, script or font extension.
EndsInStaticExtension(pathname) ==
  \/ EndsWith(pathname, <<".","c","s","s">>)
  \/ EndsWith(pathname, <<".","j","s">>)
  \/ EndsWith(pathname, <<".","w","o","f","f">>)
  \/ EndsWith(pathname, <<".","w","o","f","f","2">>)

C22_StaticIffEndsInExtension ==
  \A h \in Handlers :
    LET e == handlers[h]
        pathname == Pathname(e.req.url)
    IN  Intercepted(e.req) =>
          ( e.strategy = "staleWhileRevalidate"
              <=> ( /\ ~isHTMLRequest(e.req)
                    /\ ~isImageAsset(pathname)
                    /\ EndsInStaticExtension(pathname) ) )

\* C23: an intercepted request is classified HTML/navigation, and handled by
\* networkFirst, exactly when its Accept header includes text/html, or its
\* path ends in '.html', or is '/', or has a last segment without extension;
\* a dot in an earlier directory segment makes no difference.
C23_HtmlIffNoExtension ==
  \A h \in Handlers :
    LET e == handlers[h]
        pathname == Pathname(e.req.url)
        html == \/ AcceptIncludesHtml(e.req.accept)
                \/ EndsWith(pathname, <<".","h","t","m","l">>)
                \/ pathname = <<"/">>
                \/ (~HasExtension(pathname) /\ pathname # <<"/">>)
    IN  Intercepted(e.req) =>
          /\ isHTMLRequest(e.req) <=> html
          /\ html => e.strategy = "networkFirst"


\* C24: no entry is expired or removed on its own.  In every step, an entry
\* of a generation that still exists afterwards is still there under its key,
\* and its value changes only to the copy of a 2xx network response that a
\* cache.add of install or a pending cache.put of a handler for that very
\* request stores; a generation disappears only as one of the stale
\* generations the activation sweep is deleting.
C24_EntriesStayUntilSweep ==
  [][\A i \in 1..Len(caches) :
       LET gen == caches[i]
       IN  IF HasGen(caches', gen.name)
           THEN LET after == caches'[GenIndex(caches', gen.name)].entries
                IN  \A u \in DOMAIN gen.entries :
                      /\ u \in DOMAIN after
                      /\ after[u] # gen.entries[u] =>
                           /\ after[u].status >= 200 /\ after[u].status <= 299
                           /\ \/ lifecycle = "precaching" /\ u \in installPending
                              \/ \E h \in Handlers :
                                   /\ handlers[h].put = "pending"
                                   /\ handlers[h].req.url = u
                                   /\ after[u] = Clone(handlers[h].netResp)
           ELSE /\ lifecycle = "sweeping"
                /\ gen.name \in doomed
                /\ Stale(gen.name)]_vars

\* An entry of the runtime generation was replaced by a later 2xx response,
\* after install and the sweep of the previous version's generations, and the
\* precached assets are all still there.
C24_Witness ==
  \E h, g \in Handlers :
    /\ h < g
    /\ handlers[h].put = "done" /\ handlers[g].put = "done"
    /\ handlers[h].putAt < handlers[g].putAt
    /\ handlers[h].stored # handlers[g].stored
    /\ CacheMatch(caches, RUNTIME_CACHE, handlers[g].req.url) = handlers[g].stored
    /\ settled = [u \in PRECACHE_ASSETS |-> TRUE]
    /\ \A u \in PRECACHE_ASSETS : CacheMatch(caches, CACHE_VERSION, u) # NoResponse
    /\ GenNames(caches) = CurrentNames

\* C25: once the worker is activated (the sweep has completed), a step of
\* fetch handling leaves every generation other than the current runtime
\* generation as it is, creates no generation but the current runtime one and
\* deletes none, so the precache generation keeps the contents install gave
\* it and the generations that exist are among {CACHE_VERSION, RUNTIME_CACHE}.
C25_OnlyRuntimeGenerationWritten ==
  /\ [](lifecycle = "activated" => GenNames(caches) \subseteq CurrentNames)
  /\ [][lifecycle = "activated" =>
          /\ GenNames(caches) \subseteq GenNames(caches')
          /\ GenNames(caches') \subseteq GenNames(caches) \cup {RUNTIME_CACHE}
          /\ \A i \in 1..Len(caches) :
               caches[i].name # RUNTIME_CACHE =>
                 /\ i <= Len(caches')
                 /\ caches'[i] = caches[i]]_vars

\* After a sweep that deleted the previous version's generations, handlers
\* have created the runtime generation and written to it, and the precache
\* generation holds what install stored.
C25_Witness ==
  /\ lifecycle = "activated"
  /\ GenNames(caches) = CurrentNames
  /\ \E h \in Handlers :
       /\ handlers[h].put = "done"
       /\ handlers[h].req.url \in PRECACHE_ASSETS
       /\ handlers[h].netResp.body = "NEW"
       /\ CacheMatch(caches, RUNTIME_CACHE, handlers[h].req.url).body = "NEW"
       /\ CacheMatch(caches, CACHE_VERSION, handlers[h].req.url).body = "OLD"


\* The handlers whose cache.put has completed, and the one that completed last.
Writers == {h \in Handlers : handlers[h].put = "done"}
LastWriter == CHOOSE h \in Writers : \A g \in Writers : handlers[g].putAt <= handlers[h].putAt

\* C26: concurrent staleWhileRevalidate requests for one key.  A handler that
\* finds a hit returns, in the step of its lookup, the entry as it is then,
\* its own fetch only started and its own put not yet (so its put completes
\* after its lookup); the entry is always the copy of the 2xx response of the
\* put that completed last (the earlier copy while none has completed), never
\* absent, non-2xx or synthetic; and every pending operation of a handler can
\* complete whatever the other handlers are doing.
C26_ConcurrentRefresh ==
  /\ [](\A h \in Handlers :
          LET e == handlers[h]
          IN  /\ e.cached # NoResponse => (e.pc = "done" /\ e.response = e.cached)
              /\ e.put = "done" => e.lookupAt < e.putAt
              /\ e.pc = "swr_open" => ENABLED StaleOpen(h)
              /\ e.pc = "swr_match" => ENABLED StaleMatch(h)
              /\ e.net = "pending" => ENABLED (\E outcome \in NetworkOutcomes : StaleFetch(h, outcome))
              /\ e.put = "pending" => ENABLED PutComplete(h))
  /\ [](LET entry == CacheMatch(caches, RUNTIME_CACHE, UrlStyles)
        IN  /\ entry # NoResponse
            /\ Ok(entry)
            /\ IF Writers = {} THEN entry = FromCache(Clone(NetworkOk("OLD")))
               ELSE /\ handlers[LastWriter].net = "ok"
                    /\ entry = FromCache(Clone(handlers[LastWriter].netResp)))
  /\ [][\A h \in Handlers :
          (handlers[h].pc = "swr_match" /\ handlers'[h].pc # "swr_match") =>
            /\ handlers'[h].pc = "done"
            /\ handlers'[h].response = CacheMatch(caches, RUNTIME_CACHE, UrlStyles)
            /\ handlers'[h].net = "pending"
            /\ handlers'[h].put = "none"]_vars

\* Two overlapping requests both read and returned the pre-refresh value OLD;
\* their refreshes fetched different bodies, the put of the request that
\* arrived second completed first, and the entry is what the other one wrote.
C26_Witness ==
  \E h, g \in Handlers :
    /\ h < g
    /\ handlers[h].lookupAt = 0 /\ handlers[g].lookupAt = 0
    /\ handlers[h].response.body = "OLD" /\ handlers[g].response.body = "OLD"
    /\ handlers[h].put = "done" /\ handlers[g].put = "done"
    /\ handlers[g].putAt < handlers[h].putAt
    /\ handlers[h].netResp = NetworkOk("NEW") /\ handlers[g].netResp = NetworkOk("OLD")
    /\ \A k \in Handlers : ~InFlight(handlers[k])
    /\ CacheMatch(caches, RUNTIME_CACHE, UrlStyles).body = "NEW"


\* C28: a handler of cacheFirst or networkFirst, or of staleWhileRevalidate
\* after a miss, whose fetch settled with a non-2xx response has returned
\* that very response (not a cached copy, not a synthetic 404 or 503) and has
\* started no cache.put, so that it created and modified no entry, also when
\* a generation holds a copy of the request.
C28_NonOkResponsePassedThrough ==
  \A h \in Handlers :
    LET e == handlers[h]
    IN  ( /\ e.net = "bad"
          /\ \/ e.strategy \in {"cacheFirst", "networkFirst"}
             \/ e.strategy = "staleWhileRevalidate" /\ e.cached = NoResponse )
        => /\ e.pc = "done"
           /\ e.netResp.src = "network" /\ ~Ok(e.netResp)
           /\ e.response = e.netResp
           /\ e.put = "none"
           /\ e.putAt = 0
           /\ e.stored = NoResponse

\* networkFirst returned the 500 of the network although the page is
\* precached, and nothing was written.
C28_Witness ==
  \E h \in Handlers :
    /\ handlers[h].strategy = "networkFirst"
    /\ handlers[h].net = "bad"
    /\ handlers[h].response = NetworkError
    /\ CachesMatch(caches, handlers[h].req.url) # NoResponse
    /\ \A g \in Handlers : handlers[g].put = "none"


\* The name has the form <prefix><integer>, and the integer it carries.
HasForm(name, prefix) == \E n \in 0..(MaxVersion + 1) : name = prefix \o ToDecimal(n)
VersionOf(name, prefix) == CHOOSE n \in 0..(MaxVersion + 1) : name = prefix \o ToDecimal(n)

\* C27: the two names of sw.js always have the form caish-v<integer> and
\* caish-runtime-v<integer> with the same integer, and differ from every
\* name sw.js had before an earlier run; every run of cache-bust.sh raises
\* each integer by exactly one; and a browser that updates to the worker of
\* the present sw.js is left with no generation of an earlier version:
\* every generation that exists afterwards has one of the worker's names.
C27_VersionBump ==
  /\ [](/\ HasForm(WorkerCacheVersion(swjs), PrecachePrefix)
        /\ HasForm(WorkerRuntimeCache(swjs), RuntimePrefix)
        /\ VersionOf(WorkerCacheVersion(swjs), PrecachePrefix)
             = VersionOf(WorkerRuntimeCache(swjs), RuntimePrefix)
        /\ WorkerNames(swjs) \cap released = {})
  /\ [][(swjs' # swjs \/ released' # released) =>
          /\ VersionOf(WorkerCacheVersion(swjs'), PrecachePrefix)
               = VersionOf(WorkerCacheVersion(swjs), PrecachePrefix) + 1
          /\ VersionOf(WorkerRuntimeCache(swjs'), RuntimePrefix)
               = VersionOf(WorkerRuntimeCache(swjs), RuntimePrefix) + 1]_vars
  /\ [][(caches' # caches) =>
          /\ \A i \in 1..Len(caches) :
               caches[i].name \in released => ~HasGen(caches', caches[i].name)
          /\ GenNames(caches') \subseteq WorkerNames(swjs)
          /\ HasGen(caches', WorkerCacheVersion(swjs))]_vars

\* Two runs of the script took sw.js from version 9 to version 11, and a
\* browser that held the generations of version 9 has updated to the worker
\* of version 11 and holds that worker's two generations alone.
C27_Witness ==
  /\ WorkerCacheVersion(swjs) = <<"c","a","i","s","h","-","v","1","1">>
  /\ WorkerRuntimeCache(swjs) = <<"c","a","i","s","h","-","r","u","n","t","i","m","e","-","v","1","1">>
  /\ released = {<<"c","a","i","s","h","-","v","9">>, <<"c","a","i","s","h","-","r","u","n","t","i","m","e","-","v","9">>, <<"c","a","i","s","h","-","v","1","0">>, <<"c","a","i","s","h","-","r","u","n","t","i","m","e","-","v","1","0">>}
  /\ GenNames(caches) = {<<"c","a","i","s","h","-","v","1","1">>, <<"c","a","i","s","h","-","r","u","n","t","i","m","e","-","v","1","1">>}

\* C29: a booking POST issues at most MaxRedirects + 1 POST requests, the
\* first to GAS_URL and each with the body of the event; once a response that
\* is not a redirect has arrived no further request is issued and its text is
\* what the handler returns; a redirect beyond the limit makes gasPost throw
\* 'Too many redirects' after exactly MaxRedirects + 1 requests, and the
\* handler returns status 200 with a body whose ok is false.
C29_RedirectsBounded ==
  /\ [](booking.httpMethod = "POST" =>
          /\ Len(booking.posts) <= MaxRedirects + 1
          /\ Len(booking.posts) = booking.depth + 1
          /\ booking.posts[1].url = GAS_URL
          /\ \A i \in 1..Len(booking.posts) : booking.posts[i].body = booking.body
          /\ (booking.pc = "done" /\ booking.returned)
               => booking.response = Result(200, booking.text)
          /\ booking.err = "Error: Too many redirects" =>
               /\ booking.pc = "done"
               /\ ~booking.returned
               /\ Len(booking.posts) = MaxRedirects + 1
               /\ booking.response.statusCode = 200
               /\ booking.response.body
                    = "{\"ok\":false,\"e\":\"Error: Too many redirects\"}"
          /\ booking.pc = "done" => booking.response.statusCode = 200)
  /\ [][(booking.httpMethod = "POST" /\ booking.pc = "gas" /\ booking'.pc # "gas") =>
          /\ booking'.posts = booking.posts
          /\ booking'.returned => booking'.text \in {GasAccepted, GasRefused, GasCrashed}]_vars
  /\ [][booking.returned =>
          /\ booking'.posts = booking.posts
          /\ booking'.text = booking.text]_vars

C29_Witness ==
  /\ booking.httpMethod = "POST"
  /\ booking.pc = "done"
  /\ Len(booking.posts) = 6
  /\ booking.err = "Error: Too many redirects"
  /\ booking.response.statusCode = 200

====
